---- MODULE Spec2Model ----
(***************************************************************************)
(* Model of the FX intelligence dashboard:                                 *)
(*   - aggregateImpacts, the per-currency roll-up of article impacts       *)
(*     (web/src/components/AnalysisDashboard.tsx),                         *)
(*   - the AnalysisDashboard component's fetch state machine,              *)
(*   - the GET route of /api/analyze (web/src/app/api/analyze/route.ts).   *)
(* Scores are kept in hundredths: the integer 40 stands for 0.40.          *)
(***************************************************************************)
EXTENDS Integers, Sequences, FiniteSets

VARIABLES
    \* a call of aggregateImpacts
    analyses,   \* the ArticleAnalysis[] handed to aggregateImpacts
    called,     \* whether aggregateImpacts has returned
    output,     \* the AggregatedImpact[] it returned
    \* the AnalysisDashboard component
    mounted,    \* whether the effect of the first render has run
    state,      \* useState<FetchState>
    refreshKey, \* useState(0)
    aggregated, \* the value of the useMemo
    issued,     \* number of loadData calls so far; call k issues request k
    pending,    \* the requests whose fetch has not settled
    outcome,    \* outcome[k]: the FetchState request k ended in
    \* one GET of /api/analyze
    fetch,      \* fetch[s]: "pending", "ok" or "failed", per news source
    feed,       \* feed[s]: what parser.parseURL resolved to
    feeds,      \* feeds[s]: the value the async callback of source s returned
    all,        \* the Promise.all: "pending", "fulfilled" or "rejected"
    response    \* the response sent, or NoResponse

aggVars == <<analyses, called, output>>
dashVars == <<mounted, state, refreshKey, aggregated, issued, pending, outcome>>
routeVars == <<fetch, feed, feeds, all, response>>

vars == <<aggVars, dashVars, routeVars>>

(***************************************************************************)
(* Bounds of the model.                                                    *)
(***************************************************************************)
MaxAnalyses == 2
MaxImpacts == 4
MaxRefreshes == 2
NumSources == 3

Abs(x) == IF x < 0 THEN -x ELSE x

Currencies == {"USD", "EUR", "JPY"}

(***************************************************************************)
(* CurrencyImpact values the analyses are built from.  score is in         *)
(* hundredths.  Two impacts of one currency may carry different economy    *)
(* fields and majorPairs lists.                                            *)
(***************************************************************************)
Impact(cur, dir, conf, sc, alt) ==
    [economyId   |-> IF alt THEN cur \o "-alt" ELSE cur \o "-zone",
     economyName |-> IF alt THEN cur \o " area (alt)" ELSE cur \o " area",
     currency    |-> cur,
     direction   |-> dir,
     confidence  |-> conf,
     score       |-> sc,
     majorPairs  |-> IF alt THEN <<cur \o "/CHF">> ELSE <<cur \o "/GBP", cur \o "/CAD">>]

ImpactPool ==
    { Impact("USD", "bullish", "high",    50, FALSE),
      Impact("USD", "bearish", "low",    -20, TRUE),
      Impact("USD", "neutral", "high",    10, FALSE),
      Impact("EUR", "bullish", "low",    100, FALSE),
      Impact("EUR", "bearish", "low",    -20, TRUE),
      Impact("EUR", "neutral", "high",     5, FALSE),
      Impact("JPY", "bearish", "medium", -45, FALSE),
      Impact("JPY", "bullish", "low",      5, TRUE) }

(***************************************************************************)
(* aggregateImpacts                                                        *)
(***************************************************************************)
CONFIDENCE_WEIGHT(c) ==
    CASE c = "high"   -> 3
      [] c = "medium" -> 2
      [] c = "low"    -> 1

\* analyses.forEach(analysis => analysis.impacts.forEach(...)): the impacts in
\* the order the nested loops visit them.
RECURSIVE Flatten(_)
Flatten(as) ==
    IF as = <<>> THEN <<>> ELSE Head(as).impacts \o Flatten(Tail(as))

\* accumulator.has(currency); the accumulator (a Map) is the sequence of its
\* values in insertion order.
Has(acc, cur) == \E i \in 1..Len(acc) : acc[i].currency = cur

NewRecord(impact) ==
    [economyId   |-> impact.economyId,
     economyName |-> impact.economyName,
     currency    |-> impact.currency,
     articles    |-> 0,
     bullish     |-> 0,
     bearish     |-> 0,
     neutral     |-> 0,
     majorPairs  |-> impact.majorPairs,
     scores      |-> <<>>]

\* mutant: a record is added for every impact, seen before or not
EnsureAlways(acc, impact) == Append(acc, NewRecord(impact))

\* if (!accumulator.has(impact.currency)) accumulator.set(impact.currency, {...})
Ensure(acc, impact) ==
    IF Has(acc, impact.currency) THEN acc ELSE Append(acc, NewRecord(impact))

\* mutant: every impact overwrites the representative fields
UpdateOverwrite(record, impact) ==
    [record EXCEPT
        !.articles = @ + 1,
        !.scores = Append(@, impact.score * CONFIDENCE_WEIGHT(impact.confidence)),
        !.bullish = @ + (IF impact.direction = "bullish" THEN 1 ELSE 0),
        !.bearish = @ + (IF impact.direction = "bearish" THEN 1 ELSE 0),
        !.neutral = @ + (IF impact.direction = "neutral" THEN 1 ELSE 0),
        !.economyId = impact.economyId,
        !.economyName = impact.economyName,
        !.majorPairs = impact.majorPairs]

\* mutant: neutral impacts are not counted
UpdateNoNeutral(record, impact) ==
    [record EXCEPT
        !.articles = @ + 1,
        !.scores = Append(@, impact.score * CONFIDENCE_WEIGHT(impact.confidence)),
        !.bullish = @ + (IF impact.direction = "bullish" THEN 1 ELSE 0),
        !.bearish = @ + (IF impact.direction = "bearish" THEN 1 ELSE 0)]

\* record.articles += 1; record.scores.push(...); the three direction counters
Update(record, impact) ==
    [record EXCEPT
        !.articles = @ + 1,
        !.scores = Append(@, impact.score * CONFIDENCE_WEIGHT(impact.confidence)),
        !.bullish = @ + (IF impact.direction = "bullish" THEN 1 ELSE 0),
        !.bearish = @ + (IF impact.direction = "bearish" THEN 1 ELSE 0),
        !.neutral = @ + (IF impact.direction = "neutral" THEN 1 ELSE 0)]

\* the body of the inner forEach
Visit(acc, impact) ==
    LET a1 == Ensure(acc, impact)
        i  == CHOOSE k \in 1..Len(a1) : a1[k].currency = impact.currency
    IN  [a1 EXCEPT ![i] = Update(a1[i], impact)]

RECURSIVE Accumulate(_, _)
Accumulate(acc, impacts) ==
    IF impacts = <<>> THEN acc
    ELSE Accumulate(Visit(acc, Head(impacts)), Tail(impacts))

\* scores.reduce((a, b) => a + b, 0)
RECURSIVE Sum(_)
Sum(s) == IF s = <<>> THEN 0 ELSE Head(s) + Sum(Tail(s))

(***************************************************************************)
(* Number((total / n).toFixed(2)), total and the result in hundredths.     *)
(* toFixed rounds the magnitude to the nearest hundredth and prefixes the  *)
(* sign.  The quotient is a binary double: when the exact mean lies        *)
(* half-way between two hundredths, the double is in general a little      *)
(* above or below it and either neighbour can be printed (0.015 prints as  *)
(* 0.01, 0.125 as 0.13); `up` is the way such a half goes.                 *)
(***************************************************************************)
\* mutant: the digits after the second decimal are cut off
toFixed2Truncate(total, n, up) ==
    LET m == Abs(total)
    IN  IF total < 0 THEN -(m \div n) ELSE m \div n

toFixed2(total, n, up) ==
    LET m == Abs(total)
        q == m \div n
        r == m % n
        v == IF 2 * r < n THEN q
             ELSE IF 2 * r > n THEN q + 1
             ELSE IF up THEN q + 1 ELSE q
    IN  IF total < 0 THEN -v ELSE v

AverageScore(scores, up) ==
    IF Len(scores) = 0 THEN 0 ELSE toFixed2(Sum(scores), Len(scores), up)

(***************************************************************************)
(* Array.prototype.sort with a comparator that orders by a numeric key,    *)
(* largest first: a stable sort, so elements with equal keys keep their    *)
(* order.  key[i] is the key of seq[i].                                    *)
(***************************************************************************)
SortDescBy(seq, key) ==
    LET Rank(i) == 1 + Cardinality({ j \in 1..Len(seq) :
                        key[j] > key[i] \/ (key[j] = key[i] /\ j < i) })
    IN  [p \in 1..Len(seq) |-> seq[CHOOSE i \in 1..Len(seq) : Rank(i) = p]]

Breakdown(rest) ==
    LET b == << [direction |-> "bullish", count |-> rest.bullish],
                [direction |-> "bearish", count |-> rest.bearish],
                [direction |-> "neutral", count |-> rest.neutral] >>
    IN  SortDescBy(b, [i \in 1..3 |-> b[i].count])

\* mutant: the top bucket wins a tie with the second
ResolveDirectionTieWins(rest, averageScore) ==
    LET breakdown == Breakdown(rest)
    IN  IF breakdown[1].count >= breakdown[2].count THEN breakdown[1].direction
        ELSE IF averageScore > 30 THEN "bullish"
        ELSE IF averageScore < -30 THEN "bearish"
        ELSE "neutral"

ResolveDirection(rest, averageScore) ==
    LET breakdown == Breakdown(rest)
    IN  IF breakdown[1].count > breakdown[2].count THEN breakdown[1].direction
        ELSE IF averageScore > 30 THEN "bullish"
        ELSE IF averageScore < -30 THEN "bearish"
        ELSE "neutral"

\* the callback of .map(({ scores, ...rest }) => ...)
Finalize(record, up) ==
    LET averageScore == AverageScore(record.scores, up)
    IN  [economyId    |-> record.economyId,
         economyName  |-> record.economyName,
         currency     |-> record.currency,
         articles     |-> record.articles,
         bullish      |-> record.bullish,
         bearish      |-> record.bearish,
         neutral      |-> record.neutral,
         majorPairs   |-> record.majorPairs,
         averageScore |-> averageScore,
         direction    |-> ResolveDirection(record, averageScore)]

\* mutant: the sign is kept in the sort key
SortByAbsScoreSigned(items) ==
    SortDescBy(items, [i \in 1..Len(items) |-> items[i].averageScore])

\* .sort((a, b) => Math.abs(b.averageScore) - Math.abs(a.averageScore))
SortByAbsScore(items) ==
    SortDescBy(items, [i \in 1..Len(items) |-> Abs(items[i].averageScore)])

\* roundUp: the currencies whose mean, if it lies half-way, is rounded up
aggregateImpacts(as, roundUp) ==
    LET acc == Accumulate(<<>>, Flatten(as))
        mapped == [i \in 1..Len(acc) |-> Finalize(acc[i], acc[i].currency \in roundUp)]
    IN  SortByAbsScore(mapped)

\* the currencies whose exact mean lies half-way between two hundredths: the
\* only ones for which the way of rounding is read
HalfWay(as) ==
    LET acc == Accumulate(<<>>, Flatten(as))
    IN  { acc[i].currency : i \in { k \in 1..Len(acc) :
            /\ Len(acc[k].scores) > 0
            /\ 2 * (Abs(Sum(acc[k].scores)) % Len(acc[k].scores)) = Len(acc[k].scores) } }

(***************************************************************************)
(* A caller builds a list of analyses and calls aggregateImpacts on it.    *)
(***************************************************************************)
TotalImpacts == Len(Flatten(analyses))

AggInit ==
    /\ analyses = <<>>
    /\ called = FALSE
    /\ output = <<>>

PushAnalysis ==
    /\ ~called
    /\ Len(analyses) < MaxAnalyses
    /\ analyses' = Append(analyses, [impacts |-> <<>>])
    /\ UNCHANGED <<called, output>>

PushImpact ==
    /\ ~called
    /\ analyses # <<>>
    /\ TotalImpacts < MaxImpacts
    /\ \E impact \in ImpactPool :
          analyses' = [analyses EXCEPT ![Len(analyses)].impacts = Append(@, impact)]
    /\ UNCHANGED <<called, output>>

CallAggregate ==
    /\ ~called
    /\ \E roundUp \in SUBSET HalfWay(analyses) :
          output' = aggregateImpacts(analyses, roundUp)
    /\ called' = TRUE
    /\ UNCHANGED analyses

(***************************************************************************)
(* The AnalysisDashboard component.                                        *)
(***************************************************************************)
\* DashboardSummary payloads the route may answer with
SummaryPool ==
    { [updatedAt |-> "09:00", analyses |-> <<>>],
      [updatedAt |-> "09:05", analyses |->
          << [impacts |-> << Impact("USD", "bullish", "high", 50, FALSE),
                             Impact("EUR", "bearish", "low", -20, TRUE) >>] >>],
      [updatedAt |-> "09:10", analyses |->
          << [impacts |-> << Impact("JPY", "bearish", "medium", -45, FALSE),
                             Impact("JPY", "bullish", "low", 5, TRUE) >>],
             [impacts |-> << Impact("EUR", "bullish", "low", 100, FALSE) >>] >>] }

\* what makes a request fail: a response that is not ok, or a fetch or a
\* response.json() that throws
FailureMessages == { "Request failed with 502", "Failed to fetch" }

\* mutant: the memo is computed once (dependency list [] instead of [state])
RenderStaleMemo(st) == aggregated' = aggregated

\* the useMemo, evaluated by the render that follows a setState
Render(st) ==
    IF st.status # "success" THEN aggregated' = <<>>
    ELSE \E roundUp \in SUBSET HalfWay(st.data.analyses) :
            aggregated' = aggregateImpacts(st.data.analyses, roundUp)

setState(st) ==
    /\ state' = st
    /\ Render(st)

\* loadData up to its await: the state becomes loading and the request leaves
loadData ==
    /\ setState([status |-> "loading"])
    /\ issued' = issued + 1
    /\ pending' = pending \cup {issued + 1}
    /\ UNCHANGED outcome

DashInit ==
    /\ mounted = FALSE
    /\ state = [status |-> "idle"]
    /\ refreshKey = 0
    /\ aggregated = <<>>
    /\ issued = 0
    /\ pending = {}
    /\ outcome = <<>>

\* the effect of the first render
Mount ==
    /\ ~mounted
    /\ mounted' = TRUE
    /\ loadData
    /\ UNCHANGED refreshKey

\* the Refresh button: refreshKey changes and the effect runs loadData again
handleManualRefresh ==
    /\ mounted
    /\ refreshKey < MaxRefreshes
    /\ refreshKey' = refreshKey + 1
    /\ loadData
    /\ UNCHANGED mounted

\* loadData after its awaits, response ok: setState success
ResponseOk ==
    \E k \in pending, payload \in SummaryPool :
        /\ setState([status |-> "success", data |-> payload])
        /\ pending' = pending \ {k}
        /\ outcome' = [j \in DOMAIN outcome \cup {k} |->
                          IF j = k THEN [status |-> "success", data |-> payload]
                          ELSE outcome[j]]
        /\ UNCHANGED <<mounted, refreshKey, issued>>

\* loadData's catch: setState error
ResponseFailed ==
    \E k \in pending, msg \in FailureMessages :
        /\ setState([status |-> "error", message |-> msg])
        /\ pending' = pending \ {k}
        /\ outcome' = [j \in DOMAIN outcome \cup {k} |->
                          IF j = k THEN [status |-> "error", message |-> msg]
                          ELSE outcome[j]]
        /\ UNCHANGED <<mounted, refreshKey, issued>>

(***************************************************************************)
(* The GET route of /api/analyze.                                          *)
(***************************************************************************)
PerFeedLimit == 8
MaxArticles == 24

NEWS_SOURCES == 1..NumSources

NoDate == -1
NoResponse == [status |-> 0]

Items(n, t) == [i \in 1..n |-> [isoDate |-> t]]

\* feeds parser.parseURL may resolve to: no items field, no item, items with
\* and without a date, more items than are kept
NoItems == [hasItems |-> FALSE, items |-> <<>>]

FeedPool ==
    { NoItems,
      [hasItems |-> TRUE, items |-> <<>>],
      [hasItems |-> TRUE, items |-> << [isoDate |-> 3] >>],
      [hasItems |-> TRUE, items |-> << [isoDate |-> 2], [isoDate |-> NoDate] >>],
      [hasItems |-> TRUE, items |-> Items(PerFeedLimit + 1, 1)] }

Take(seq, n) == SubSeq(seq, 1, IF Len(seq) < n THEN Len(seq) ELSE n)

\* the normalized article of the k-th item of a source's feed
transformArticle(source, item, k) ==
    [sourceName  |-> source,
     link        |-> <<source, k>>,
     publishedAt |-> item.isoDate]

\* (feed.items ?? []).slice(0, 8).map(item => transformArticle(source, item))
MapFeed(source, f) ==
    LET items == IF f.hasItems THEN f.items ELSE <<>>
        kept  == Take(items, PerFeedLimit)
    IN  [k \in 1..Len(kept) |-> transformArticle(source, kept[k], k)]

\* feeds.flat(), the sources in the order of NEWS_SOURCES
RECURSIVE Flat(_, _)
Flat(fs, s) ==
    IF s > NumSources THEN <<>> ELSE fs[s] \o Flat(fs, s + 1)

\* .sort((a, b) => timeB - timeA), an article without a date counting as 0
SortNewestFirst(articles) ==
    SortDescBy(articles,
        [i \in 1..Len(articles) |->
            IF articles[i].publishedAt = NoDate THEN 0 ELSE articles[i].publishedAt])

\* one analysis per article, in the order of the articles
buildDashboardSummary(articles) ==
    [updatedAt |-> "now",
     analyses  |-> [i \in 1..Len(articles) |-> [article |-> articles[i]]]]

\* mutant: the promise waits for every fetch and fulfils whatever they did
PromiseAllSettled(cur, statuses) ==
    IF cur # "pending" THEN cur
    ELSE IF \A s \in NEWS_SOURCES : statuses[s] # "pending" THEN "fulfilled"
    ELSE "pending"

\* Promise.all: rejected by the first rejection, fulfilled by the last
\* fulfilment, settled once
PromiseAll(cur, statuses) ==
    IF cur # "pending" THEN cur
    ELSE IF \E s \in NEWS_SOURCES : statuses[s] = "failed" THEN "rejected"
    ELSE IF \A s \in NEWS_SOURCES : statuses[s] = "ok" THEN "fulfilled"
    ELSE "pending"

\* GET has been called: every source's fetch is under way
RouteInit ==
    /\ fetch = [s \in NEWS_SOURCES |-> "pending"]
    /\ feed = [s \in NEWS_SOURCES |-> NoItems]
    /\ feeds = [s \in NEWS_SOURCES |-> <<>>]
    /\ all = "pending"
    /\ response = NoResponse

\* parser.parseURL of one source resolves and its callback returns
ParseResolves ==
    \E s \in NEWS_SOURCES, f \in FeedPool :
        /\ fetch[s] = "pending"
        /\ fetch' = [fetch EXCEPT ![s] = "ok"]
        /\ feed' = [feed EXCEPT ![s] = f]
        /\ feeds' = [feeds EXCEPT ![s] = MapFeed(s, f)]
        /\ all' = PromiseAll(all, fetch')
        /\ UNCHANGED response

\* parser.parseURL of one source rejects (timeout, bad feed)
ParseRejects ==
    \E s \in NEWS_SOURCES :
        /\ fetch[s] = "pending"
        /\ fetch' = [fetch EXCEPT ![s] = "failed"]
        /\ all' = PromiseAll(all, fetch')
        /\ UNCHANGED <<feed, feeds, response>>

\* GET after the await: sort, keep the newest 24, build and send the summary
RespondSummary ==
    /\ all = "fulfilled"
    /\ response = NoResponse
    /\ response' = [status |-> 200,
                    body |-> buildDashboardSummary(
                        Take(SortNewestFirst(Flat(feeds, 1)), MaxArticles))]
    /\ UNCHANGED <<fetch, feed, feeds, all>>

\* GET's catch
RespondFailure ==
    /\ all = "rejected"
    /\ response = NoResponse
    /\ response' = [status |-> 502,
                    body |-> [message |-> "Failed to analyze latest news."]]
    /\ UNCHANGED <<fetch, feed, feeds, all>>

(***************************************************************************)
(* Specifications: the aggregation, the dashboard, the route.              *)
(***************************************************************************)
Init == AggInit /\ DashInit /\ RouteInit

Next ==
    \/ PushAnalysis /\ UNCHANGED <<dashVars, routeVars>>
    \/ PushImpact /\ UNCHANGED <<dashVars, routeVars>>
    \/ CallAggregate /\ UNCHANGED <<dashVars, routeVars>>

Spec == Init /\ [][Next]_vars

DashboardNext ==
    \/ Mount /\ UNCHANGED <<aggVars, routeVars>>
    \/ handleManualRefresh /\ UNCHANGED <<aggVars, routeVars>>
    \/ ResponseOk /\ UNCHANGED <<aggVars, routeVars>>
    \/ ResponseFailed /\ UNCHANGED <<aggVars, routeVars>>

DashboardSpec == Init /\ [][DashboardNext]_vars

RouteNext ==
    \/ ParseResolves /\ UNCHANGED <<aggVars, dashVars>>
    \/ ParseRejects /\ UNCHANGED <<aggVars, dashVars>>
    \/ RespondSummary /\ UNCHANGED <<aggVars, dashVars>>
    \/ RespondFailure /\ UNCHANGED <<aggVars, dashVars>>

RouteSpec == Init /\ [][RouteNext]_vars

(***************************************************************************)
(* Properties of aggregateImpacts.                                         *)
(***************************************************************************)
\* the impacts of one currency, in the order the input lists them
ImpactsOf(cur) == SelectSeq(Flatten(analyses), LAMBDA x : x.currency = cur)

Entries == { output[i] : i \in 1..Len(output) }

RECURSIVE WeightedTotal(_)
WeightedTotal(imps) ==
    IF imps = <<>> THEN 0
    ELSE LET x == Head(imps)
             w == IF x.confidence = "high" THEN 3
                  ELSE IF x.confidence = "medium" THEN 2 ELSE 1
         IN  x.score * w + WeightedTotal(Tail(imps))

CountOf(imps, dir) == Len(SelectSeq(imps, LAMBDA x : x.direction = dir))

ThresholdDirection(avg) ==
    IF avg > 30 THEN "bullish" ELSE IF avg < -30 THEN "bearish" ELSE "neutral"

\* C1: a bucket whose count is strictly above both others decides the
\* direction whatever the average; in every other case (the top two counts
\* tie) the rounded average decides: above 0.30 bullish, below -0.30 bearish,
\* neutral otherwise.
C1_DirectionResolution ==
    called =>
        \A e \in Entries :
            IF e.bullish > e.bearish /\ e.bullish > e.neutral
                THEN e.direction = "bullish"
            ELSE IF e.bearish > e.bullish /\ e.bearish > e.neutral
                THEN e.direction = "bearish"
            ELSE IF e.neutral > e.bullish /\ e.neutral > e.bearish
                THEN e.direction = "neutral"
            ELSE e.direction = ThresholdDirection(e.averageScore)

\* bullish = 2, bearish = 2, neutral = 0, averageScore 0.40: bullish
C1_Witness ==
    /\ called
    /\ \E e \in Entries :
          /\ e.bullish = 2 /\ e.bearish = 2 /\ e.neutral = 0
          /\ e.averageScore = 40
          /\ e.direction = "bullish"

\* C2: averageScore is the sum of score x weight (high 3, medium 2, low 1)
\* over the currency's impacts divided by their number, rounded to the
\* nearest hundredth; a currency with a single impact of score s has
\* averageScore 3s, 2s or s.
C2_WeightedAverage ==
    called =>
        \A e \in Entries :
            LET imps == ImpactsOf(e.currency)
                n == Len(imps)
                total == WeightedTotal(imps)
            IN  /\ n > 0
                /\ 2 * Abs(n * e.averageScore - total) <= n
                /\ n = 1 => e.averageScore = total

\* a currency with impacts of different confidences whose mean is not a
\* whole number of hundredths
C2_Witness ==
    /\ called
    /\ \E e \in Entries :
          LET imps == ImpactsOf(e.currency)
          IN  /\ Len(imps) = 3
              /\ WeightedTotal(imps) % 3 # 0
              /\ \E i, j \in 1..3 : imps[i].confidence = "high"
                                    /\ imps[j].confidence = "low"

RECURSIVE MaxAbsScore(_)
MaxAbsScore(imps) ==
    IF imps = <<>> THEN 0
    ELSE LET m == MaxAbsScore(Tail(imps))
             a == Abs(Head(imps).score)
         IN  IF a > m THEN a ELSE m

AllNeutral(imps) == \A i \in 1..Len(imps) : imps[i].direction = "neutral"

\* C3: a currency whose impacts are all neutral is aggregated as neutral,
\* and the magnitude of its averageScore is at most the largest magnitude of
\* its impacts' scores.
C3_NeutralBounded ==
    called =>
        \A e \in Entries :
            LET imps == ImpactsOf(e.currency)
            IN  AllNeutral(imps) =>
                    /\ e.direction = "neutral"
                    /\ Abs(e.averageScore) <= MaxAbsScore(imps)

\* C4: the output is ordered by non-increasing magnitude of averageScore.
C4_SortedByMagnitude ==
    called =>
        \A i \in 1..(Len(output) - 1) :
            Abs(output[i].averageScore) >= Abs(output[i + 1].averageScore)

\* three currencies, the largest magnitude negative and seen last
C4_Witness ==
    /\ called
    /\ Len(output) = 3
    /\ output[1].averageScore = -90
    /\ output[2].averageScore > 0
    /\ Abs(output[2].averageScore) > Abs(output[3].averageScore)
    /\ Flatten(analyses)[Len(Flatten(analyses))].currency = output[1].currency

InputCurrencies ==
    { Flatten(analyses)[i].currency : i \in 1..Len(Flatten(analyses)) }

\* C5: the output holds exactly one entry for each currency that occurs in
\* an impact of the input, and no other; it is empty when no analysis
\* carries an impact.
C5_OneEntryPerCurrency ==
    called =>
        /\ { e.currency : e \in Entries } = InputCurrencies
        /\ \A i, j \in 1..Len(output) :
              output[i].currency = output[j].currency => i = j
        /\ TotalImpacts = 0 => output = <<>>

\* a currency that occurs twice, another once, the third never
C5_Witness ==
    /\ called
    /\ TotalImpacts = 3
    /\ Len(output) = 2

\* C8: majorPairs, economyId and economyName of an entry are those of the
\* first impact of its currency in iteration order.
C8_FirstOccurrenceFields ==
    called =>
        \A e \in Entries :
            LET first == Head(ImpactsOf(e.currency))
            IN  /\ e.majorPairs = first.majorPairs
                /\ e.economyId = first.economyId
                /\ e.economyName = first.economyName

\* a later impact of the currency carries other fields
C8_Witness ==
    /\ called
    /\ \E e \in Entries :
          LET imps == ImpactsOf(e.currency)
          IN  /\ Len(imps) >= 2
              /\ imps[Len(imps)].majorPairs # imps[1].majorPairs
              /\ imps[Len(imps)].economyId # imps[1].economyId

\* C9: bullish + bearish + neutral = articles = the number of impacts of the
\* currency in the input.
C9_CountsAddUp ==
    called =>
        \A e \in Entries :
            LET imps == ImpactsOf(e.currency)
            IN  /\ e.bullish + e.bearish + e.neutral = e.articles
                /\ e.articles = Len(imps)
                /\ e.bullish = CountOf(imps, "bullish")
                /\ e.bearish = CountOf(imps, "bearish")
                /\ e.neutral = CountOf(imps, "neutral")

\* one analysis carries two impacts of the same currency
C9_Witness ==
    /\ called
    /\ \E a \in 1..Len(analyses) :
          /\ Len(analyses[a].impacts) = 2
          /\ analyses[a].impacts[1].currency = analyses[a].impacts[2].currency
          /\ analyses[a].impacts[2].direction = "neutral"
          /\ \E e \in Entries :
                e.currency = analyses[a].impacts[1].currency /\ e.articles >= 2

(***************************************************************************)
(* Properties of the dashboard.                                            *)
(***************************************************************************)
\* C6: whatever refreshes came before, the aggregated value is
\* aggregateImpacts of the analyses of the summary now held, and the empty
\* list when the state is not success.
C6_AggregatedFromCurrentSummary ==
    IF state.status = "success"
    THEN \E roundUp \in SUBSET Currencies :
            aggregated = aggregateImpacts(state.data.analyses, roundUp)
    ELSE aggregated = <<>>

\* a summary is held and shown after an earlier request brought another one
C6_Witness ==
    /\ state.status = "success"
    /\ aggregated # <<>>
    /\ \E j \in DOMAIN outcome :
          /\ outcome[j].status = "success"
          /\ outcome[j].data.analyses # <<>>
          /\ outcome[j].data # state.data

\* C10: once no request is outstanding, the state held is the outcome of the
\* request issued last.
C10_LastIssuedWins ==
    (mounted /\ pending = {}) => state = outcome[issued]

(***************************************************************************)
(* Properties of the route.                                                *)
(***************************************************************************)
\* the summary of the articles of every source's feed
SummaryOfAllSources ==
    buildDashboardSummary(
        Take(SortNewestFirst(Flat([s \in NEWS_SOURCES |-> MapFeed(s, feed[s])], 1)),
             MaxArticles))

\* C7: a summary is sent only when every fetch succeeded and is built from
\* the feeds of all sources; the 502 payload, which carries no summary, is
\* sent only when a fetch failed; and when the fetches have all succeeded, or
\* one has failed, no other response can follow.
C7_AllOrNothing ==
    /\ response.status \in {0, 200, 502}
    /\ response.status = 200 =>
          /\ \A s \in NEWS_SOURCES : fetch[s] = "ok"
          /\ response.body = SummaryOfAllSources
    /\ response.status = 502 =>
          /\ \E s \in NEWS_SOURCES : fetch[s] = "failed"
          /\ response.body = [message |-> "Failed to analyze latest news."]
    /\ (response = NoResponse /\ \A s \in NEWS_SOURCES : fetch[s] = "ok")
          => all = "fulfilled"
    /\ (response = NoResponse /\ \E s \in NEWS_SOURCES : fetch[s] = "failed")
          => all = "rejected"

\* one source failed, another delivered articles: the response is the 502
C7_Witness ==
    /\ response.status = 502
    /\ \E s \in NEWS_SOURCES : fetch[s] = "ok" /\ feeds[s] # <<>>
    /\ \A s \in NEWS_SOURCES : fetch[s] # "pending"

====
